---- MODULE Spec2Model ----
(***************************************************************************)
(* A model of billiard_r.py: the ball physics (Ball.update,                *)
(* GamePhysics.resolve_ball_collision, GamePhysics.check_wall_collision)   *)
(* and the GameView handlers that drive it (setup, on_update,              *)
(* check_pocket_collisions, on_ball_potted, take_shot, toggle_pause ...).  *)
(*                                                                         *)
(* Numbers.  The program computes in floating point.  The model computes   *)
(* in fixed point: a length, a velocity or an angular velocity v is held   *)
(* as the integer round(v * U), U = 1000; a time is held in milliseconds;  *)
(* a unit vector is held in units of 1/NS, NS = 10000.  Every product is   *)
(* followed by a division rounded to nearest (RDiv), as a float product is *)
(* rounded to nearest.  Distances are compared through their squares, so   *)
(* the comparisons of the program (distance < r, distance == 0) are exact. *)
(* All intermediate values stay below 2^31.                                *)
(*                                                                         *)
(* Left out, as presentation only: sprite rotation, trails, highlights,    *)
(* particles, sounds, screen shake, volume keys.  Of on_draw the model     *)
(* keeps the one assignment it makes to the game, aiming_power (OnDraw),   *)
(* and of the particle system the calls of emit_pocket (pocket_emits).     *)
(***************************************************************************)
EXTENDS Integers, Sequences, FiniteSets, TLC

\* ------------------------------------------------------------------------
\* Program constants (billiard_r.py, lines 9-38), in the units given.
\* ------------------------------------------------------------------------
SCREEN_WIDTH == 1200
SCREEN_HEIGHT == 700
\* 0.985, in 1/1000
FRICTION == 985
\* 0.96, in 1/100
ROTATIONAL_FRICTION == 96
\* 0.78, in 1/100
WALL_BOUNCE == 78
BALL_RADIUS == 14
POCKET_RADIUS == 32
MAX_POWER == 25
MIN_POWER == 3
\* 0.15, in 1/100
SPIN_EFFECT == 15
MAX_SCORE == 15
\* seconds
TIME_LIMIT == 300
TURN_TIME_LIMIT == 30

\* ------------------------------------------------------------------------
\* Fixed-point arithmetic
\* ------------------------------------------------------------------------
\* units per 1.0 of length, velocity and angular velocity
U == 10 * 100
\* units per 1.0 of a unit-vector component
NS == 10 * 1000

Abs(a) == IF a < 0 THEN -a ELSE a

Sign(a) == IF a < 0 THEN -1 ELSE IF a > 0 THEN 1 ELSE 0

Min(a, b) == IF a < b THEN a ELSE b

Max(a, b) == IF a > b THEN a ELSE b

\* a / b rounded to the nearest integer, halves away from zero (b > 0)
RDiv(a, b) == Sign(a) * ((Abs(a) + (b \div 2)) \div b)

\* one step of the bitwise square root: t = <<n, r, bit>>
SqrtStep[t \in Nat \X Nat \X Nat] ==
    IF t[3] = 0 THEN t[2]
    ELSE LET c == t[2] + t[3]
         IN  SqrtStep[<<t[1], IF c <= 46340 /\ c * c <= t[1] THEN c ELSE t[2], t[3] \div 2>>]

\* floor(sqrt(n)), 0 <= n < 2^31
ISqrt(n) == SqrtStep[<<n, 0, 32768>>]

\* math.sqrt(dx*dx + dy*dy) of two fixed-point numbers, rounded down
Hypot(dx, dy) == ISqrt(dx * dx + dy * dy)

\* sqrt(dx*dx + dy*dy) < r, decided exactly (r in fixed point, r <= 32767)
DistLess(dx, dy, r) ==
    /\ Abs(dx) < r
    /\ Abs(dy) < r
    /\ dx * dx + dy * dy < r * r

\* sqrt(dx*dx + dy*dy) > r, decided exactly
DistGreater(dx, dy, r) ==
    \/ Abs(dx) > r
    \/ Abs(dy) > r
    \/ dx * dx + dy * dy > r * r

\* ------------------------------------------------------------------------
\* Ball
\* ------------------------------------------------------------------------
\* Ball.__init__: a ball at (x, y), at rest; x and y in fixed point
Ball(x, y, ball_type, number) ==
    [number |-> number, ball_type |-> ball_type,
     center_x |-> x, center_y |-> y, change_x |-> 0, change_y |-> 0,
     angular_velocity |-> 0, in_pocket |-> FALSE,
     initial_x |-> x, initial_y |-> y]

\* ball mass (self.mass = 1.0)
MASS == 1

\* restitution = 0.9 of resolve_ball_collision, in 1/10
RESTITUTION == 9

\* the zero-snap threshold 0.08 of Ball.update, in fixed point
SNAP == 80

\* the spin threshold 0.1 of Ball.update and resolve_ball_collision
SPIN_MIN == 100

\* speed = math.sqrt(change_x ** 2 + change_y ** 2)
Speed(b) == Hypot(b.change_x, b.change_y)

\* mutant of FrictionFactor: a friction of 0.9985
FrictionFactorWeak(speed) == 9985 - RDiv(speed, 200)

\* mutant of FrictionFactor: a speed coefficient of 0.05 in place of 0.0005
FrictionFactorSteep(speed) == FRICTION * 10 - RDiv(speed, 2)

\* friction = FRICTION - speed * 0.0005, in 1/10000
FrictionFactor(speed) == FRICTION * 10 - RDiv(speed, 200)

\* mutant of Snap: no zero snap
SnapNone(v) == v

\* the zero snap of Ball.update: if abs(v) < 0.08: v = 0
Snap(v) == IF Abs(v) < SNAP THEN 0 ELSE v

\* Ball.update(delta_time), delta_time in milliseconds
BallUpdate(b, dt) ==
    LET x1 == b.center_x + b.change_x
        y1 == b.center_y + b.change_y
        speed == Speed(b)
        f == FrictionFactor(speed)
        vx1 == RDiv(b.change_x * f, 10000)
        vy1 == RDiv(b.change_y * f, 10000)
        w1 == RDiv(b.angular_velocity * ROTATIONAL_FRICTION, 100)
        drift == RDiv(w1 * SPIN_EFFECT * dt, 100 * 1000)
        spinning == Abs(w1) > SPIN_MIN
        vx2 == IF spinning THEN vx1 + drift ELSE vx1
        vy2 == IF spinning THEN vy1 - drift ELSE vy1
    IN  IF speed > 0
        THEN [b EXCEPT !.center_x = x1, !.center_y = y1,
                       !.change_x = Snap(vx2), !.change_y = Snap(vy2),
                       !.angular_velocity = w1]
        ELSE [b EXCEPT !.center_x = x1, !.center_y = y1,
                       !.change_x = Snap(b.change_x), !.change_y = Snap(b.change_y)]

\* Ball.apply_force(dx, dy, power): the direction of (dx, dy) times power;
\* spin is the value random.uniform(-1, 1) returned, in 1/1000
ApplyForce(b, dx, dy, power, spin) ==
    LET k == 1 + (Max(Abs(dx), Abs(dy)) \div 30000)
        sx == RDiv(dx, k)
        sy == RDiv(dy, k)
        len == Hypot(sx, sy)
        ux == RDiv(sx * NS, len)
        uy == RDiv(sy * NS, len)
    IN  [b EXCEPT !.change_x = RDiv(ux * power, NS),
                  !.change_y = RDiv(uy * power, NS),
                  !.angular_velocity = RDiv(power * spin, 10 * 1000)]

\* Ball.reset()
BallReset(b) ==
    [b EXCEPT !.center_x = b.initial_x, !.center_y = b.initial_y,
              !.change_x = 0, !.change_y = 0,
              !.angular_velocity = 0, !.in_pocket = FALSE]

\* arcade sprite edges of a circle sprite of radius BALL_RADIUS
Left(b) == b.center_x - BALL_RADIUS * U

Right(b) == b.center_x + BALL_RADIUS * U

Bottom(b) == b.center_y - BALL_RADIUS * U

Top(b) == b.center_y + BALL_RADIUS * U

\* ------------------------------------------------------------------------
\* GamePhysics
\* ------------------------------------------------------------------------
\* nx, ny = dx / distance, dy / distance, in 1/NS, for 0 < distance <=
\* BALL_RADIUS * 2.  (dx, dy) is scaled up before the division so that the
\* result is a unit vector to within 1.25/NS whatever the distance is.
Normal(dx, dy) ==
    LET k == (BALL_RADIUS * 2 * U) \div Max(Abs(dx), Abs(dy))
        len == Hypot(dx * k, dy * k)
    IN  <<RDiv(dx * k * NS, len), RDiv(dy * k * NS, len)>>

\* mutant of Separation: each ball pushed by a quarter of the overlap
SeparationQuarter(distance) == RDiv(BALL_RADIUS * 2 * U - distance, 4)

\* separation = overlap * 0.5, overlap = BALL_RADIUS * 2 - distance
Separation(distance) == RDiv(BALL_RADIUS * 2 * U - distance, 2)

\* the four position updates of resolve_ball_collision: ball b moved by
\* sgn * n * separation
Pushed(b, n, separation, sgn) ==
    [b EXCEPT !.center_x = @ + sgn * RDiv(n[1] * separation, NS),
              !.center_y = @ + sgn * RDiv(n[2] * separation, NS)]

\* speed_along_normal = dvx * nx + dvy * ny
SpeedAlongNormal(b1, b2, n) ==
    RDiv((b2.change_x - b1.change_x) * n[1] + (b2.change_y - b1.change_y) * n[2], NS)

\* mutant of Impulse: a restitution of 1.2
ImpulseOverElastic(speed_along_normal) ==
    RDiv(2 * speed_along_normal * 12, (MASS + MASS) * 10)

\* mutant of Impulse: the textbook factor (1 + restitution) in place of
\* 2 * restitution
ImpulseTextbook(speed_along_normal) ==
    RDiv(speed_along_normal * (10 + RESTITUTION), (MASS + MASS) * 10)

\* impulse = 2 * speed_along_normal / (ball1.mass + ball2.mass) * restitution
Impulse(speed_along_normal) ==
    RDiv(2 * speed_along_normal * RESTITUTION, (MASS + MASS) * 10)

\* mutant of Kicked: only ball1 receives the impulse
KickedOneSided(b, n, impulse, sgn) ==
    IF sgn = 1
    THEN [b EXCEPT !.change_x = @ + RDiv(impulse * MASS * n[1], NS),
                   !.change_y = @ + RDiv(impulse * MASS * n[2], NS)]
    ELSE b

\* ball b with its velocity changed by sgn * impulse * mass * n
Kicked(b, n, impulse, sgn) ==
    [b EXCEPT !.change_x = @ + sgn * RDiv(impulse * MASS * n[1], NS),
              !.change_y = @ + sgn * RDiv(impulse * MASS * n[2], NS)]

\* mutant of SpinTransfer: the threshold test is >= 0.1
SpinTransferInclusive(b1) ==
    IF Abs(b1.angular_velocity) >= SPIN_MIN THEN RDiv(b1.angular_velocity * 3, 10) ELSE 0

\* transfer = ball1.angular_velocity * 0.3 when abs(angular_velocity) > 0.1
SpinTransfer(b1) ==
    IF Abs(b1.angular_velocity) > SPIN_MIN THEN RDiv(b1.angular_velocity * 3, 10) ELSE 0

\* the early return of resolve_ball_collision:
\* distance == 0 or distance > BALL_RADIUS * 2
ResolveSkips(dx, dy) ==
    \/ (dx = 0 /\ dy = 0)
    \/ DistGreater(dx, dy, BALL_RADIUS * 2 * U)

\* mutant of ResolveBallCollision: a coincident pair is not skipped but pushed
\* apart along the x axis
ResolveBallCollisionCoincident(ball1, ball2) ==
    LET dx == ball2.center_x - ball1.center_x
        dy == ball2.center_y - ball1.center_y
    IN  IF DistGreater(dx, dy, BALL_RADIUS * 2 * U) THEN <<ball1, ball2>>
        ELSE
          LET distance == Hypot(dx, dy)
              n == IF distance = 0 THEN <<NS, 0>> ELSE Normal(dx, dy)
              separation == Separation(distance)
              p1 == Pushed(ball1, n, separation, -1)
              p2 == Pushed(ball2, n, separation, 1)
              san == SpeedAlongNormal(ball1, ball2, n)
              impulse == Impulse(san)
              k1 == Kicked(p1, n, impulse, 1)
              k2 == Kicked(p2, n, impulse, -1)
              transfer == SpinTransfer(ball1)
          IN  IF san > 0 THEN <<p1, p2>>
              ELSE <<[k1 EXCEPT !.angular_velocity = @ - transfer],
                     [k2 EXCEPT !.angular_velocity = @ + transfer]>>

\* GamePhysics.resolve_ball_collision(ball1, ball2): the two balls after the call
ResolveBallCollision(ball1, ball2) ==
    LET dx == ball2.center_x - ball1.center_x
        dy == ball2.center_y - ball1.center_y
    IN  IF ResolveSkips(dx, dy) THEN <<ball1, ball2>>
        ELSE
          LET distance == Hypot(dx, dy)
              n == Normal(dx, dy)
              separation == Separation(distance)
              p1 == Pushed(ball1, n, separation, -1)
              p2 == Pushed(ball2, n, separation, 1)
              san == SpeedAlongNormal(ball1, ball2, n)
              impulse == Impulse(san)
              k1 == Kicked(p1, n, impulse, 1)
              k2 == Kicked(p2, n, impulse, -1)
              transfer == SpinTransfer(ball1)
          IN  IF san > 0 THEN <<p1, p2>>
              ELSE <<[k1 EXCEPT !.angular_velocity = @ - transfer],
                     [k2 EXCEPT !.angular_velocity = @ + transfer]>>

\* the bounding rectangle of check_wall_collision, in fixed point
LeftBound == 65 * U

RightBound == (SCREEN_WIDTH - 65) * U

BottomBound == 65 * U

TopBound == (SCREEN_HEIGHT - 65) * U

\* mutant of Bounce: the abs() forgotten
BounceSigned(v) == RDiv(v * WALL_BOUNCE, 100)

\* abs(v) * WALL_BOUNCE
Bounce(v) == RDiv(Abs(v) * WALL_BOUNCE, 100)

\* angular_velocity *= -0.8
SpinFlip(w) == -RDiv(w * 8, 10)

\* mutant of CheckWallCollision: the right and top walls reflect the velocity
\* but the position is not clamped
CheckWallCollisionNoClamp(ball) ==
    IF Left(ball) < LeftBound
    THEN [ball |-> [ball EXCEPT !.center_x = LeftBound + BALL_RADIUS * U,
                                !.change_x = Bounce(ball.change_x),
                                !.angular_velocity = SpinFlip(@)],
          hit |-> TRUE]
    ELSE IF Right(ball) > RightBound
    THEN [ball |-> [ball EXCEPT !.change_x = -Bounce(ball.change_x),
                                !.angular_velocity = SpinFlip(@)],
          hit |-> TRUE]
    ELSE IF Bottom(ball) < BottomBound
    THEN [ball |-> [ball EXCEPT !.center_y = BottomBound + BALL_RADIUS * U,
                                !.change_y = Bounce(ball.change_y),
                                !.angular_velocity = SpinFlip(@)],
          hit |-> TRUE]
    ELSE IF Top(ball) > TopBound
    THEN [ball |-> [ball EXCEPT !.change_y = -Bounce(ball.change_y),
                                !.angular_velocity = SpinFlip(@)],
          hit |-> TRUE]
    ELSE [ball |-> ball, hit |-> FALSE]

\* mutant of CheckWallCollision: both axes are corrected in one call
CheckWallCollisionBothAxes(ball) ==
    LET bx == IF Left(ball) < LeftBound
              THEN [ball EXCEPT !.center_x = LeftBound + BALL_RADIUS * U,
                                !.change_x = Bounce(ball.change_x),
                                !.angular_velocity = SpinFlip(@)]
              ELSE IF Right(ball) > RightBound
              THEN [ball EXCEPT !.center_x = RightBound - BALL_RADIUS * U,
                                !.change_x = -Bounce(ball.change_x),
                                !.angular_velocity = SpinFlip(@)]
              ELSE ball
        by == IF Bottom(ball) < BottomBound
              THEN [bx EXCEPT !.center_y = BottomBound + BALL_RADIUS * U,
                              !.change_y = Bounce(ball.change_y),
                              !.angular_velocity = SpinFlip(@)]
              ELSE IF Top(ball) > TopBound
              THEN [bx EXCEPT !.center_y = TopBound - BALL_RADIUS * U,
                              !.change_y = -Bounce(ball.change_y),
                              !.angular_velocity = SpinFlip(@)]
              ELSE bx
    IN  [ball |-> by,
         hit |-> \/ Left(ball) < LeftBound \/ Right(ball) > RightBound
                 \/ Bottom(ball) < BottomBound \/ Top(ball) > TopBound]

\* GamePhysics.check_wall_collision(ball): the ball after the call and the
\* value returned
CheckWallCollision(ball) ==
    IF Left(ball) < LeftBound
    THEN [ball |-> [ball EXCEPT !.center_x = LeftBound + BALL_RADIUS * U,
                                !.change_x = Bounce(ball.change_x),
                                !.angular_velocity = SpinFlip(@)],
          hit |-> TRUE]
    ELSE IF Right(ball) > RightBound
    THEN [ball |-> [ball EXCEPT !.center_x = RightBound - BALL_RADIUS * U,
                                !.change_x = -Bounce(ball.change_x),
                                !.angular_velocity = SpinFlip(@)],
          hit |-> TRUE]
    ELSE IF Bottom(ball) < BottomBound
    THEN [ball |-> [ball EXCEPT !.center_y = BottomBound + BALL_RADIUS * U,
                                !.change_y = Bounce(ball.change_y),
                                !.angular_velocity = SpinFlip(@)],
          hit |-> TRUE]
    ELSE IF Top(ball) > TopBound
    THEN [ball |-> [ball EXCEPT !.center_y = TopBound - BALL_RADIUS * U,
                                !.change_y = -Bounce(ball.change_y),
                                !.angular_velocity = SpinFlip(@)],
          hit |-> TRUE]
    ELSE [ball |-> ball, hit |-> FALSE]

\* ------------------------------------------------------------------------
\* BilliardTable and GameView: setup
\* ------------------------------------------------------------------------
\* BilliardTable.pocket_locations, in iteration order
PocketLocations ==
    <<<<60, 60>>, <<SCREEN_WIDTH \div 2, 50>>, <<SCREEN_WIDTH - 60, 60>>,
      <<60, SCREEN_HEIGHT - 60>>, <<SCREEN_WIDTH \div 2, SCREEN_HEIGHT - 50>>,
      <<SCREEN_WIDTH - 60, SCREEN_HEIGHT - 60>>>>

\* the break position of the cue ball: (300, SCREEN_HEIGHT // 2)
CueX == 300 * U

CueY == (SCREEN_HEIGHT \div 2) * U

\* the cue ball created by setup()
CueBall == Ball(CueX, CueY, "CUE", 0)

\* the row of the pyramid that holds the ball of index idx (rows 0..4 hold
\* 1, 2, 3, 4 and the remaining 4 balls)
PyramidRow(idx) == CHOOSE r \in 0..4 : (r * (r + 1)) \div 2 <= idx /\ idx < ((r + 1) * (r + 2)) \div 2

\* the ball of index idx (0..13) that setup_pyramid() creates:
\* x = pyramid_x + row * 28, y = pyramid_y + (col - row / 2) * 28
PyramidBall(idx) ==
    LET row == PyramidRow(idx)
        col == idx - (row * (row + 1)) \div 2
        x == (SCREEN_WIDTH - 300 + row * 28) * U
        y == (SCREEN_HEIGHT \div 2) * U + (2 * col - row) * 14 * U
    IN  IF idx < 7 THEN Ball(x, y, "SOLID", idx + 1)
        ELSE Ball(x, y, "STRIPE", idx + 2)

\* the eight ball created by setup_pyramid()
EightBall == Ball((SCREEN_WIDTH - 200) * U, (SCREEN_HEIGHT \div 2) * U, "EIGHT", 8)

\* self.balls after setup(): cue ball, eight ball, the 14 pyramid balls
Rack == <<CueBall, EightBall>> \o [k \in 1..14 |-> PyramidBall(k - 1)]

\* GameView.__init__ followed by setup(), in game mode mode
Setup(mode) ==
    [game_state |-> "AIMING", game_mode |-> mode, balls |-> Rack,
     score |-> 0, high_score |-> 0,
     time_remaining |-> TIME_LIMIT * 1000, turn_time |-> TURN_TIME_LIMIT * 1000,
     current_turn |-> 1, balls_potted_this_turn |-> 0,
     combo |-> 0, max_combo |-> 0, shots_taken |-> 0, consecutive_pots |-> 0,
     aiming_power |-> 0, show_guides |-> TRUE, show_volume_indicator |-> FALSE,
     slow_motion |-> FALSE, slow_motion_time |-> 0, last_shot_time |-> 0,
     pocket_emits |-> <<>>, results |-> <<>>, view |-> "game"]

\* index in balls of the ball with this number, 0 when it is not in the list
IndexOf(balls, number) ==
    IF \E i \in 1..Len(balls) : balls[i].number = number
    THEN CHOOSE i \in 1..Len(balls) : balls[i].number = number
    ELSE 0

\* index of self.cue_ball in self.balls
CueIndex(g) == IndexOf(g.balls, 0)

\* ResultsView.on_draw: whether "НОВЫЙ РЕКОРД" is shown as "ДА!":
\* self.score > self.high_score
NewRecordShown(rv) == rv.score > rv.high_score

\* ------------------------------------------------------------------------
\* GameView: end of game, end of turn
\* ------------------------------------------------------------------------
\* show_results_screen(victory): the ResultsView created is appended to
\* results, and the window shows it
ShowResultsScreen(g, victory) ==
    [g EXCEPT !.results = Append(@, [score |-> g.score, high_score |-> g.high_score,
                                     victory |-> victory]),
              !.view = "results"]

\* game_over(victory)
GameOver(g, victory) ==
    ShowResultsScreen([g EXCEPT !.game_state = "GAME_OVER",
                                !.high_score = Max(g.high_score, g.score)], victory)

\* end_turn()
EndTurn(g) ==
    LET c == CueIndex(g)
        g1 == [g EXCEPT !.current_turn = @ + 1, !.balls_potted_this_turn = 0,
                        !.turn_time = TURN_TIME_LIMIT * 1000, !.combo = 0]
    IN  IF c > 0 /\ g.balls[c].in_pocket
        THEN [g1 EXCEPT !.balls[c] = BallReset(@)]
        ELSE g1

\* on_balls_stopped()
OnBallsStopped(g) ==
    [g EXCEPT !.shots_taken = @ + 1,
              !.combo = IF g.consecutive_pots = 0 THEN 0 ELSE @,
              !.consecutive_pots = 0]

\* balls_remaining of check_win_conditions
BallsRemaining(g) ==
    Cardinality({i \in 1..Len(g.balls) :
                    ~g.balls[i].in_pocket /\ g.balls[i].ball_type # "CUE"})

\* check_win_conditions()
CheckWinConditions(g) ==
    LET g1 == IF g.game_mode = "TIMED" /\ g.time_remaining <= 0
              THEN GameOver(g, FALSE) ELSE g
        g2 == IF BallsRemaining(g1) = 0 THEN GameOver(g1, TRUE) ELSE g1
    IN  IF g2.score >= MAX_SCORE * 1000 THEN GameOver(g2, TRUE) ELSE g2

\* ------------------------------------------------------------------------
\* GameView: pockets
\* ------------------------------------------------------------------------
\* bonus_points of on_ball_potted
BonusPoints(ball) ==
    IF ball.ball_type = "EIGHT" THEN 500
    ELSE IF ball.ball_type = "SPECIAL" THEN 300
    ELSE IF ball.number = 7 \/ ball.number = 15 THEN 150
    ELSE 0

\* points = int((base_points + bonus_points) * (1 + combo * 0.2))
Points(ball, combo) == ((100 + BonusPoints(ball)) * (5 + combo)) \div 5

\* mutant of RespawnCue: the cue ball is put back with the velocity it had
RespawnCueMoving(ball) ==
    [ball EXCEPT !.center_x = CueX, !.center_y = CueY, !.in_pocket = FALSE]

\* the cue-ball branch of on_ball_potted: respawn at the break position
RespawnCue(ball) ==
    [ball EXCEPT !.center_x = CueX, !.center_y = CueY,
                 !.change_x = 0, !.change_y = 0, !.in_pocket = FALSE]

\* mutant of RemoveBall: the potted ball stays in the sprite list
RemoveBallNone(balls, number) == balls

\* ball.remove_from_sprite_lists()
RemoveBall(balls, number) == SelectSeq(balls, LAMBDA b : b.number # number)

\* on_ball_potted(ball, pocket_x, pocket_y), ball = g.balls[i] and
\* (pocket_x, pocket_y) = PocketLocations[k]; pocket_emits records the ball
\* and the pocket of the call, the pocket being what the call hands to
\* particle_system.emit_pocket
OnBallPotted(g, i, k) ==
    LET ball == g.balls[i]
        g1 == [g EXCEPT !.balls[i].in_pocket = TRUE,
                        !.pocket_emits = Append(@, <<ball.number, k>>),
                        !.slow_motion = TRUE, !.slow_motion_time = 1000]
    IN  IF ball.ball_type = "CUE"
        THEN LET g2 == [g1 EXCEPT !.balls[i] = RespawnCue(@), !.combo = 0]
             IN  IF g.game_mode = "TURN_BASED" THEN EndTurn(g2) ELSE g2
        ELSE LET g2 == IF ball.ball_type = "EIGHT" /\ g.game_mode = "TURN_BASED"
                       THEN GameOver(g1, TRUE) ELSE g1
                 points == Points(ball, g2.combo)
             IN  [g2 EXCEPT !.score = @ + points,
                            !.combo = @ + 1,
                            !.max_combo = Max(@, g2.combo + 1),
                            !.balls_potted_this_turn = @ + 1,
                            !.consecutive_pots = @ + 1,
                            !.balls = RemoveBall(@, ball.number)]

\* mutant of InPocket: a ball at exactly POCKET_RADIUS is in the pocket too
InPocketInclusive(ball, pocket) ==
    ~DistGreater(ball.center_x - pocket[1] * U, ball.center_y - pocket[2] * U,
                 POCKET_RADIUS * U)

\* the pocket test of check_pocket_collisions: distance < POCKET_RADIUS
InPocket(ball, pocket) ==
    DistLess(ball.center_x - pocket[1] * U, ball.center_y - pocket[2] * U,
             POCKET_RADIUS * U)

\* the inner loop of check_pocket_collisions from pocket k on: the index of
\* the pocket at which the loop breaks, 0 if it runs to its end
RECURSIVE PocketScan(_, _)
PocketScan(ball, k) ==
    IF k > Len(PocketLocations) THEN 0
    ELSE IF InPocket(ball, PocketLocations[k]) THEN k
    ELSE PocketScan(ball, k + 1)

\* whether the inner loop of check_pocket_collisions finds a pocket for ball
Captured(ball) == PocketScan(ball, 1) > 0

\* check_pocket_collisions(): the loop over the copy self.balls[:], numbers
\* being the numbers of the balls of the copy still to visit
RECURSIVE PocketLoop(_, _)
PocketLoop(g, numbers) ==
    IF numbers = <<>> THEN g
    ELSE LET i == IndexOf(g.balls, Head(numbers))
         IN  IF i = 0 \/ g.balls[i].in_pocket \/ ~Captured(g.balls[i])
             THEN PocketLoop(g, Tail(numbers))
             ELSE PocketLoop(OnBallPotted(g, i, PocketScan(g.balls[i], 1)), Tail(numbers))

CheckPocketCollisions(g) ==
    PocketLoop(g, [k \in 1..Len(g.balls) |-> g.balls[k].number])

\* ------------------------------------------------------------------------
\* GameView.on_update
\* ------------------------------------------------------------------------
\* the body of the first loop of on_update for one ball: update, then walls
UpdateAndWall(ball, dt) == CheckWallCollision(BallUpdate(ball, dt)).ball

\* if ball.change_x != 0 or ball.change_y != 0
Moving(ball) == ball.change_x # 0 \/ ball.change_y # 0

\* the first loop of on_update
UpdatePass(balls, dt) == [i \in 1..Len(balls) |-> UpdateAndWall(balls[i], dt)]

\* balls_moving after the first loop
BallsMoving(balls) == \E i \in 1..Len(balls) : Moving(balls[i])

\* if distance < BALL_RADIUS * 2.1
Near(ball1, ball2) ==
    DistLess(ball2.center_x - ball1.center_x, ball2.center_y - ball1.center_y,
             (BALL_RADIUS * 21 * U) \div 10)

\* the body of the pair loop of on_update for the pair (i, j)
PairStep(balls, i, j) ==
    IF balls[i].in_pocket \/ balls[j].in_pocket THEN balls
    ELSE IF Near(balls[i], balls[j])
    THEN LET r == ResolveBallCollision(balls[i], balls[j])
         IN  [balls EXCEPT ![i] = r[1], ![j] = r[2]]
    ELSE balls

\* the inner loop of the pair loop: for j in range(i + 1, len(balls_list))
RECURSIVE PairInner(_, _, _)
PairInner(balls, i, j) ==
    IF j > Len(balls) THEN balls
    ELSE PairInner(PairStep(balls, i, j), i, j + 1)

\* the outer loop of the pair loop: for i in range(len(balls_list))
RECURSIVE PairOuter(_, _)
PairOuter(balls, i) ==
    IF i >= Len(balls) THEN balls
    ELSE PairOuter(PairInner(balls, i, i + 1), i + 1)

\* the pair loop of on_update
PairPass(balls) == PairOuter(balls, 1)

\* lines 1193-1197: the countdown of the TIMED mode
TimedStep(g, dt) ==
    IF g.game_mode = "TIMED" /\ g.game_state # "PAUSED"
    THEN IF g.time_remaining - dt <= 0
         THEN GameOver([g EXCEPT !.time_remaining = 0], FALSE)
         ELSE [g EXCEPT !.time_remaining = @ - dt]
    ELSE g

\* delta_time after lines 1199-1200: if self.slow_motion: delta_time *= 0.3
Slowed(g, dt) == IF g.slow_motion THEN RDiv(dt * 3, 10) ELSE dt

\* lines 1199-1203
SlowMotionStep(g, dt) ==
    IF g.slow_motion
    THEN [g EXCEPT !.slow_motion_time = @ - Slowed(g, dt),
                   !.slow_motion = (g.slow_motion_time - Slowed(g, dt) > 0)]
    ELSE g

\* lines 1205-1208: the turn clock of the TURN_BASED mode
TurnStep(g, dt) ==
    IF g.game_mode = "TURN_BASED" /\ g.game_state = "AIMING"
    THEN IF g.turn_time - dt <= 0
         THEN EndTurn([g EXCEPT !.turn_time = @ - dt])
         ELSE [g EXCEPT !.turn_time = @ - dt]
    ELSE g

\* lines 1267-1272: the rest-state machine
RestStep(g, balls_moving) ==
    IF balls_moving THEN [g EXCEPT !.game_state = "BALLS_MOVING"]
    ELSE [(IF g.game_state = "BALLS_MOVING" THEN OnBallsStopped(g) ELSE g)
             EXCEPT !.game_state = "AIMING"]

\* mutant of OnUpdate: the tick does not return when the game is paused
OnUpdateNoPause(g, delta_time) ==
    LET g1 == TimedStep(g, delta_time)
        dt == Slowed(g1, delta_time)
        g2 == SlowMotionStep(g1, delta_time)
        g3 == TurnStep(g2, dt)
        moved == UpdatePass(g3.balls, dt)
        g4 == [g3 EXCEPT !.balls = PairPass(moved)]
        g5 == CheckPocketCollisions(g4)
        g6 == RestStep(g5, BallsMoving(moved))
    IN  CheckWinConditions(g6)

\* on_update(delta_time), delta_time in milliseconds
OnUpdate(g, delta_time) ==
    IF g.game_state = "PAUSED" THEN g
    ELSE LET g1 == TimedStep(g, delta_time)
             dt == Slowed(g1, delta_time)
             g2 == SlowMotionStep(g1, delta_time)
             g3 == TurnStep(g2, dt)
             moved == UpdatePass(g3.balls, dt)
             g4 == [g3 EXCEPT !.balls = PairPass(moved)]
             g5 == CheckPocketCollisions(g4)
             g6 == RestStep(g5, BallsMoving(moved))
         IN  CheckWinConditions(g6)

\* ------------------------------------------------------------------------
\* GameView: input handlers
\* ------------------------------------------------------------------------
\* math.sqrt(dx * dx + dy * dy) of two fixed-point numbers of any size
Distance(dx, dy) ==
    LET k == 1 + (Max(Abs(dx), Abs(dy)) \div 30000)
    IN  Hypot(RDiv(dx, k), RDiv(dy, k)) * k

\* mutant of ShotPower: the power not raised to MIN_POWER
ShotPowerNoFloor(aiming_power) == Min(aiming_power * MAX_POWER, MAX_POWER * U)

\* power of take_shot: min(aiming_power * MAX_POWER, MAX_POWER), then
\* max(power, MIN_POWER); aiming_power in 1/1000, the result in fixed point
ShotPower(aiming_power) ==
    Max(Min(aiming_power * MAX_POWER, MAX_POWER * U), MIN_POWER * U)

\* mutant of TakeShot: a zero-length aim vector is not rejected, the shot is
\* counted with no force applied
TakeShotNoReject(g, target_x, target_y, spin) ==
    LET c == CueIndex(g)
        dx == target_x * U - g.balls[c].center_x
        dy == target_y * U - g.balls[c].center_y
    IN  IF c = 0 \/ g.balls[c].in_pocket THEN g
        ELSE IF dx = 0 /\ dy = 0
             THEN [g EXCEPT !.last_shot_time = @ + 1, !.game_state = "BALLS_MOVING"]
        ELSE [g EXCEPT !.balls[c] = ApplyForce(@, dx, dy, ShotPower(g.aiming_power), spin),
                       !.last_shot_time = @ + 1,
                       !.game_state = "BALLS_MOVING"]

\* take_shot(target_x, target_y); the target in pixels, spin the value that
\* random.uniform(-1, 1) returns in apply_force, in 1/1000.  last_shot_time
\* holds the number of the time stamp taken: time.time() of the k-th shot
\* applied is held as k, and 0 is the value that __init__ gives it.
TakeShot(g, target_x, target_y, spin) ==
    LET c == CueIndex(g)
        dx == target_x * U - g.balls[c].center_x
        dy == target_y * U - g.balls[c].center_y
    IN  IF c = 0 \/ g.balls[c].in_pocket THEN g
        ELSE IF dx = 0 /\ dy = 0 THEN g
        ELSE [g EXCEPT !.balls[c] = ApplyForce(@, dx, dy, ShotPower(g.aiming_power), spin),
                       !.last_shot_time = @ + 1,
                       !.game_state = "BALLS_MOVING"]

\* adjust_power(x, y): aiming_power = min(distance, 300) / 300, in 1/1000
AdjustPower(g, x, y) ==
    LET c == CueIndex(g)
        distance == Distance(x * U - g.balls[c].center_x, y * U - g.balls[c].center_y)
    IN  IF c = 0 THEN g
        ELSE [g EXCEPT !.aiming_power = RDiv(Min(distance, 300 * U), 300)]

\* what on_draw() changes in the game: in AIMING, draw_aiming_interface()
\* sets aiming_power = min(distance / 100, 1.0), distance being the distance
\* from the cue ball to the pointer (mx, my), held between 1 and 200
OnDraw(g, mx, my) ==
    LET c == CueIndex(g)
        distance == Distance(mx * U - g.balls[c].center_x, my * U - g.balls[c].center_y)
    IN  IF g.game_state = "AIMING" /\ c > 0
        THEN [g EXCEPT !.aiming_power = Min(RDiv(Min(Max(distance, U), 200 * U), 100), 1000)]
        ELSE g

\* preview_length and segments of draw_bank_shot_preview
PREVIEW_LENGTH == 800
SEGMENTS == 3

\* units per 1.0 of a direction component of the preview ray
RS == 10 * 100

\* float('inf'): larger than every finite intersection time of the model
INF == 2147483647

\* (cos(angle), sin(angle)) for angle = atan2(dy, dx), in 1/RS; atan2(0, 0)
\* is 0
PreviewDirection(dx, dy) ==
    IF dx = 0 /\ dy = 0 THEN <<RS, 0>>
    ELSE LET k == 1 + (Max(Abs(dx), Abs(dy)) \div 30000)
             sx == RDiv(dx, k)
             sy == RDiv(dy, k)
             len == Hypot(sx, sy)
         IN  <<RDiv(sx * RS, len), RDiv(sy * RS, len)>>

\* mutant of PreviewTime: the direction component is not tested for zero and
\* a division by zero comes out as time 0
PreviewTimeUnguarded(bound, pos, d) ==
    IF d # 0 THEN RDiv((bound - pos) * RS * Sign(d), Abs(d)) ELSE 0

\* (bound - pos) / d if d != 0 else float('inf'): the time at which the ray
\* reaches the wall at bound
PreviewTime(bound, pos, d) ==
    IF d # 0 THEN RDiv((bound - pos) * RS * Sign(d), Abs(d)) ELSE INF

\* [t_left, t_right, t_bottom, t_top] for the ray at (x, y) with direction d
PreviewTimes(x, y, d) ==
    <<PreviewTime(LeftBound, x, d[1]), PreviewTime(RightBound, x, d[1]),
      PreviewTime(BottomBound, y, d[2]), PreviewTime(TopBound, y, d[2])>>

\* min(t for t in times if t > 0); 0 stands for the ValueError that min()
\* raises on an empty sequence
PreviewMin(times) ==
    LET positive == {times[k] : k \in 1..4} \cap {t \in {times[k] : k \in 1..4} : t > 0}
    IN  IF positive = {} THEN 0
        ELSE CHOOSE t \in positive : \A s \in positive : t <= s

\* current_dx *= -WALL_BOUNCE
PreviewReflect(d) == -RDiv(d * WALL_BOUNCE, 100)

\* the loop of draw_bank_shot_preview from one segment on: the record of
\* each segment entered (ray position, direction, the four intersection
\* times, t_min, remaining preview_length, power, and how the segment ended)
RECURSIVE PreviewLoop(_, _, _, _, _, _)
PreviewLoop(x, y, d, length, power, segment) ==
    IF segment >= SEGMENTS THEN <<>>
    ELSE
      LET times == PreviewTimes(x, y, d)
          t_min == PreviewMin(times)
          rec == [x |-> x, y |-> y, dx |-> d[1], dy |-> d[2], times |-> times,
                  t_min |-> t_min, length |-> length, power |-> power]
      IN  IF t_min = 0 THEN <<rec @@ [end |-> "error"]>>
          ELSE IF power = 0 THEN <<rec @@ [end |-> "error"]>>
          ELSE IF t_min > RDiv(length * U, power) THEN <<rec @@ [end |-> "break"]>>
          ELSE
            LET bounce_x == x + RDiv(d[1] * t_min, RS)
                bounce_y == y + RDiv(d[2] * t_min, RS)
                hit_x == \/ Abs(bounce_x - LeftBound) < U
                         \/ Abs(bounce_x - RightBound) < U
                hit_y == \/ Abs(bounce_y - BottomBound) < U
                         \/ Abs(bounce_y - TopBound) < U
                d1 == <<IF hit_x THEN PreviewReflect(d[1]) ELSE d[1],
                        IF hit_y THEN PreviewReflect(d[2]) ELSE d[2]>>
            IN  <<rec @@ [end |-> "bounce"]>>
                \o PreviewLoop(bounce_x, bounce_y, d1,
                               length - RDiv(t_min * power, U), power, segment + 1)

\* draw_bank_shot_preview(angle, distance) as draw_aiming_interface calls it
\* with the pointer at (mx, my): the segments it goes through; none when the
\* guides are off or the game is not aiming
BankShotPreview(g, mx, my) ==
    LET c == CueIndex(g)
        after == OnDraw(g, mx, my)
    IN  IF g.game_state = "AIMING" /\ c > 0 /\ g.show_guides
        THEN PreviewLoop(g.balls[c].center_x, g.balls[c].center_y,
                         PreviewDirection(mx * U - g.balls[c].center_x,
                                          my * U - g.balls[c].center_y),
                         PREVIEW_LENGTH * U, after.aiming_power * MAX_POWER, 0)
        ELSE <<>>

\* on_mouse_press(x, y, button, modifiers)
OnMousePress(g, x, y, button, spin) ==
    IF g.game_state # "AIMING" \/ g.game_state = "PAUSED" \/ g.show_volume_indicator
    THEN g
    ELSE IF button = "LEFT" THEN TakeShot(g, x, y, spin)
    ELSE IF button = "RIGHT" THEN AdjustPower(g, x, y)
    ELSE g

\* toggle_pause()
TogglePause(g) ==
    IF g.game_state = "PAUSED" THEN [g EXCEPT !.game_state = "AIMING"]
    ELSE [g EXCEPT !.game_state = "PAUSED"]

\* reset_shot()
ResetShot(g) ==
    LET c == CueIndex(g)
    IN  IF c > 0 /\ g.game_state = "AIMING"
        THEN [g EXCEPT !.balls[c].center_x = CueX, !.balls[c].center_y = CueY,
                       !.balls[c].change_x = 0, !.balls[c].change_y = 0]
        ELSE g

\* return_to_menu(): the window shows a new MainMenu
ReturnToMenu(g) == [g EXCEPT !.view = "menu"]

\* restart_game(): setup() on this GameView
RestartGame(g) ==
    [Setup(g.game_mode) EXCEPT !.high_score = g.high_score, !.max_combo = g.max_combo,
                               !.consecutive_pots = g.consecutive_pots,
                               !.aiming_power = g.aiming_power,
                               !.show_guides = g.show_guides,
                               !.slow_motion = g.slow_motion,
                               !.slow_motion_time = g.slow_motion_time,
                               !.last_shot_time = g.last_shot_time,
                               !.pocket_emits = g.pocket_emits,
                               !.results = g.results, !.view = g.view]

\* on_key_press(key, modifiers); (mx, my) is the pointer position that SPACE
\* reads from the window
OnKeyPress(g, key, mx, my, spin) ==
    IF g.show_volume_indicator
    THEN IF key = "ESCAPE" THEN [g EXCEPT !.show_volume_indicator = FALSE] ELSE g
    ELSE IF key = "P" THEN TogglePause(g)
    ELSE IF key = "R" /\ g.game_state = "AIMING" THEN ResetShot(g)
    ELSE IF key = "G" THEN [g EXCEPT !.show_guides = ~@]
    ELSE IF key = "M" THEN [g EXCEPT !.show_volume_indicator = TRUE]
    ELSE IF key = "ESCAPE" THEN ReturnToMenu(g)
    ELSE IF key = "SPACE" /\ g.game_state = "AIMING" THEN TakeShot(g, mx, my, spin)
    ELSE IF key = "ENTER" /\ g.game_state = "GAME_OVER" THEN RestartGame(g)
    ELSE g

\* ------------------------------------------------------------------------
\* State
\* ------------------------------------------------------------------------
\* gv      the GameView (a record of its fields; gv.balls is the sprite list,
\*         gv.results the ResultsViews it has created, gv.view what the
\*         window shows, gv.pocket_emits the <<ball number, pocket index>>
\*         of the emit_pocket calls made so far)
\* pre     history: the GameView as it was when the last handler was entered
\* last    history: the last handler entered and its delta_time
\* ticks   the number of on_update calls (of physics calls in SpecPhysics)
\* inputs  the number of mouse and key events
VARIABLES gv, pre, last, ticks, inputs

vars == <<gv, pre, last, ticks, inputs>>

\* bounds of the model
MaxTicks == 3
MaxInputs == 3
MaxCalls == 1
MaxSteps == 400
MaxShotTicks == 350
MaxAimInputs == 3
MaxPocketCalls == 2
MaxPreviews == 1

GameModes == {"PRACTICE", "TIMED", "TURN_BASED", "CHALLENGE"}

\* frame times offered to on_update, in milliseconds
DeltaTimes == {0, 20}

\* pointer positions offered to the mouse and key handlers, in pixels: the
\* corner pocket, the eight ball, the cue ball's own center
Targets == {<<60, 60>>, <<1000, 350>>, <<300, 350>>}

\* values of random.uniform(-1, 1) offered to apply_force, in 1/1000
Spins == {-1000, 500}

\* keys offered to on_key_press
Keys == {"P", "R", "M", "ESCAPE", "SPACE"}

Buttons == {"LEFT", "RIGHT"}

\* ------------------------------------------------------------------------
\* Spec: the game, from setup(), under frames and input events
\* ------------------------------------------------------------------------
Init ==
    /\ \E mode \in GameModes : gv = Setup(mode)
    /\ pre = gv
    /\ last = [op |-> "setup", dt |-> 0]
    /\ ticks = 0
    /\ inputs = 0

\* the window calls on_update(delta_time) of the view it shows
Tick ==
    /\ gv.view = "game"
    /\ ticks < MaxTicks
    /\ \E dt \in DeltaTimes :
         /\ gv' = OnUpdate(gv, dt)
         /\ last' = [op |-> "on_update", dt |-> dt]
    /\ pre' = gv
    /\ ticks' = ticks + 1
    /\ UNCHANGED inputs

\* the window calls on_mouse_press of the view it shows
MousePress ==
    /\ gv.view = "game"
    /\ inputs < MaxInputs
    /\ \E t \in Targets, button \in Buttons :
         \E spin \in (IF button = "LEFT" THEN Spins ELSE {0}) :
            gv' = OnMousePress(gv, t[1], t[2], button, spin)
    /\ last' = [op |-> "on_mouse_press", dt |-> 0]
    /\ pre' = gv
    /\ inputs' = inputs + 1
    /\ UNCHANGED ticks

\* the window calls on_key_press of the view it shows
KeyPress ==
    /\ gv.view = "game"
    /\ inputs < MaxInputs
    /\ \E key \in Keys :
         \E t \in (IF key = "SPACE" THEN Targets ELSE {<<0, 0>>}),
            spin \in (IF key = "SPACE" THEN Spins ELSE {0}) :
            gv' = OnKeyPress(gv, key, t[1], t[2], spin)
    /\ last' = [op |-> "on_key_press", dt |-> 0]
    /\ pre' = gv
    /\ inputs' = inputs + 1
    /\ UNCHANGED ticks

Next == Tick \/ MousePress \/ KeyPress

Spec == Init /\ [][Next]_vars

\* ------------------------------------------------------------------------
\* SpecPhysics: Ball.update, check_wall_collision and resolve_ball_collision
\* applied to two balls drawn from bounded sets
\* ------------------------------------------------------------------------
\* a ball with the given position, velocity and angular velocity
BallAt(number, pos, vel, w) ==
    [Ball(pos[1], pos[2], IF number = 0 THEN "CUE" ELSE "SOLID", number)
        EXCEPT !.change_x = vel[1], !.change_y = vel[2], !.angular_velocity = w]

\* where ball 1 of a pair is placed
PairBase == <<600 * U, 350 * U>>

\* center of ball 2 relative to ball 1: coincident, touching, overlapping
\* along an axis and obliquely, barely overlapping, apart
PairOffsets ==
    {<<0, 0>>, <<28000, 0>>, <<20000, 0>>, <<0, -20000>>, <<10000, 10000>>,
     <<-14000, 14000>>, <<500, 0>>, <<3000, -4000>>, <<27999, 1>>,
     <<-12345, 6789>>, <<29000, 0>>, <<20000, 20000>>}

PairVelocities1 ==
    {<<5000, 0>>, <<0, 0>>, <<-3000, 4000>>, <<25000, 0>>, <<79, 0>>, <<1234, -8765>>}

PairVelocities2 == {<<0, 0>>, <<-5000, 2000>>, <<3000, 1000>>, <<0, -79>>}

PairSpins1 == {0, 100, 101, 2500, -1000}

PairSpins2 == {0, 500}

\* positions near each wall and each corner, and mid-table
WallXs == {70000, 78999, 79000, 600000, 1121000, 1121001, 1130000}

WallYs == {70000, 78999, 79000, 350000, 621000, 621001, 630000}

WallVelocities ==
    {<<0, 0>>, <<79, 0>>, <<50, -60>>, <<-80, 0>>, <<79, -79>>,
     <<5000, 0>>, <<-5000, -5000>>, <<0, 25000>>, <<-4000, 3000>>}

WallSpins == {0, 100, 2500, -1000}

\* the pairs of balls offered to the physics functions
PhysicsInputs ==
    {<<BallAt(0, PairBase, v1, w1),
       BallAt(1, <<PairBase[1] + d[1], PairBase[2] + d[2]>>, v2, w2)>> :
        d \in PairOffsets, v1 \in PairVelocities1, v2 \in PairVelocities2,
        w1 \in PairSpins1, w2 \in PairSpins2}
    \cup
    {<<BallAt(0, <<x, y>>, v, w), BallAt(1, <<300 * U, 350 * U>>, <<0, 0>>, 0)>> :
        x \in WallXs, y \in WallYs, v \in WallVelocities, w \in WallSpins}

InitPhysics ==
    /\ \E bs \in PhysicsInputs : gv = [Setup("PRACTICE") EXCEPT !.balls = bs]
    /\ pre = gv
    /\ last = [op |-> "input", dt |-> 0]
    /\ ticks = 0
    /\ inputs = 0

\* ball.update(delta_time) on ball 1
CallUpdate ==
    /\ ticks < MaxCalls
    /\ \E dt \in DeltaTimes :
         /\ gv' = [gv EXCEPT !.balls[1] = BallUpdate(@, dt)]
         /\ last' = [op |-> "update", dt |-> dt]
    /\ pre' = gv
    /\ ticks' = ticks + 1
    /\ UNCHANGED inputs

\* check_wall_collision(ball) on ball 1; last.hit is the value returned
CallWall ==
    /\ ticks < MaxCalls
    /\ gv' = [gv EXCEPT !.balls[1] = CheckWallCollision(@).ball]
    /\ last' = [op |-> "check_wall_collision", dt |-> 0,
                hit |-> CheckWallCollision(gv.balls[1]).hit]
    /\ pre' = gv
    /\ ticks' = ticks + 1
    /\ UNCHANGED inputs

\* resolve_ball_collision(ball1, ball2)
CallResolve ==
    /\ ticks < MaxCalls
    /\ gv' = [gv EXCEPT !.balls = ResolveBallCollision(gv.balls[1], gv.balls[2])]
    /\ last' = [op |-> "resolve_ball_collision", dt |-> 0]
    /\ pre' = gv
    /\ ticks' = ticks + 1
    /\ UNCHANGED inputs

NextPhysics == CallUpdate \/ CallWall \/ CallResolve

SpecPhysics == InitPhysics /\ [][NextPhysics]_vars

\* ------------------------------------------------------------------------
\* Properties of the physics functions (SpecPhysics)
\* ------------------------------------------------------------------------
\* the epsilon of the separation claims: 0.01 of a length unit
EPS == U \div 100

\* the distance between the centers of a and b is at least r
Apart(a, b, r) == ~DistLess(b.center_x - a.center_x, b.center_y - a.center_y, r)

\* the centers of a and b coincide exactly (the computed distance is 0)
Coincident(a, b) == a.center_x = b.center_x /\ a.center_y = b.center_y

\* twice the kinetic energy of the balls: the sum of mass * speed^2
Energy2(balls) ==
    MASS * (balls[1].change_x * balls[1].change_x + balls[1].change_y * balls[1].change_y)
    + MASS * (balls[2].change_x * balls[2].change_x + balls[2].change_y * balls[2].change_y)

Resolved == last.op = "resolve_ball_collision"

Updated == last.op = "update"

WallChecked == last.op = "check_wall_collision"

\* C3 as claimed: after resolve_ball_collision(a, b), for any two balls, the
\* centers are at least 2*BALL_RADIUS - epsilon apart.
C3_ApartAfterResolveAnyPair ==
    Resolved => Apart(gv.balls[1], gv.balls[2], 2 * BALL_RADIUS * U - EPS)

\* C3 as amended: after resolve_ball_collision(a, b), for any two balls whose
\* centers do not coincide exactly (computed distance not 0), the centers are
\* at least 2*BALL_RADIUS - epsilon apart.
C3_ApartAfterResolve ==
    (Resolved /\ ~Coincident(pre.balls[1], pre.balls[2]))
        => Apart(gv.balls[1], gv.balls[2], 2 * BALL_RADIUS * U - EPS)

\* C3 witness: an overlapping pair (distance 20 along x) has been resolved
\* and is now 2*BALL_RADIUS - epsilon apart or more.
C3_Witness ==
    /\ Resolved
    /\ pre.balls[2].center_x - pre.balls[1].center_x = 20000
    /\ pre.balls[2].center_y = pre.balls[1].center_y
    /\ Apart(gv.balls[1], gv.balls[2], 2 * BALL_RADIUS * U - EPS)

\* what rounding can add to Energy2 in resolve_ball_collision.  With D the
\* sum of the absolute components of the relative velocity, each component
\* of the velocity change is within e = D/4000 + 2 of its exact value (the
\* normal is exact to 1.25/NS, each division rounds by 1/2), and an error e
\* in the velocity change moves Energy2 by less than 8 * D * e + 4 * e^2.
RoundingSlack(balls) ==
    LET D == Abs(balls[2].change_x - balls[1].change_x)
             + Abs(balls[2].change_y - balls[1].change_y)
        e == (D \div 4000) + 2
    IN  8 * D * e + 4 * e * e

\* C4: resolve_ball_collision never increases the kinetic energy of the pair
\* (the sum of mass * speed^2 / 2 over the two balls), for any two overlapping
\* balls and any velocities, to within the rounding of the fixed-point
\* arithmetic.
C4_EnergyNotIncreased ==
    Resolved => Energy2(gv.balls) <= Energy2(pre.balls) + RoundingSlack(pre.balls)

\* C4 witness: an approaching overlapping pair has been resolved, velocities
\* changed, and the pair's kinetic energy went down.
C4_Witness ==
    /\ Resolved
    /\ gv.balls[2].change_x # pre.balls[2].change_x
    /\ Energy2(gv.balls) < Energy2(pre.balls)

\* C5 as claimed: if a ball's speed before Ball.update is below the zero-snap
\* threshold 0.08, its velocity after Ball.update is exactly (0, 0), whatever
\* its angular velocity and delta_time.
C5_SlowBallSnappedToRest ==
    (Updated /\ Speed(pre.balls[1]) < SNAP)
        => (gv.balls[1].change_x = 0 /\ gv.balls[1].change_y = 0)

\* the ball lies inside the bounding rectangle along x / along y
InsideX(b) == Left(b) >= LeftBound /\ Right(b) <= RightBound

InsideY(b) == Bottom(b) >= BottomBound /\ Top(b) <= TopBound

\* the ball's extent crosses a vertical / a horizontal wall
CrossesVertical(b) == Left(b) < LeftBound \/ Right(b) > RightBound

CrossesHorizontal(b) == Bottom(b) < BottomBound \/ Top(b) > TopBound

\* C6 as claimed: after check_wall_collision the ball lies fully inside the
\* bounding rectangle, for every position before the call.
C6_InsideAfterWallCheckAnyPosition ==
    WallChecked => (InsideX(gv.balls[1]) /\ InsideY(gv.balls[1]))

\* C6 as amended: after check_wall_collision the ball lies inside the
\* rectangle along x (left >= 65, right <= SCREEN_WIDTH-65); it lies inside
\* along y too (bottom >= 65, top <= SCREEN_HEIGHT-65) whenever it did not
\* cross a vertical wall before the call.
C6_InsideAfterWallCheck ==
    WallChecked =>
        /\ InsideX(gv.balls[1])
        /\ ~CrossesVertical(pre.balls[1]) => InsideY(gv.balls[1])

\* C6 witness: a ball across the right wall only has been checked and lies
\* fully inside.
C6_Witness ==
    /\ WallChecked
    /\ Right(pre.balls[1]) > RightBound
    /\ ~CrossesHorizontal(pre.balls[1])
    /\ InsideX(gv.balls[1]) /\ InsideY(gv.balls[1])

\* the wall check_wall_collision reports a hit on, for a ball before the call
HitWall(b) ==
    IF Left(b) < LeftBound THEN "left"
    ELSE IF Right(b) > RightBound THEN "right"
    ELSE IF Bottom(b) < BottomBound THEN "bottom"
    ELSE IF Top(b) > TopBound THEN "top"
    ELSE "none"

\* the velocity component of b normal to the wall
NormalVelocity(b, wall) == IF wall \in {"left", "right"} THEN b.change_x ELSE b.change_y

\* +1 when into the table means a positive normal component, else -1
Inward(wall) == IF wall \in {"left", "bottom"} THEN 1 ELSE -1

\* after is before scaled by WALL_BOUNCE in magnitude (to rounding)
ScaledByWallBounce(before, after) ==
    Abs(100 * Abs(after) - WALL_BOUNCE * Abs(before)) <= 50

\* after is before multiplied by -0.8 (to rounding)
InvertedAndDamped(before, after) == Abs(10 * after + 8 * before) <= 5

\* C7 as claimed: whenever check_wall_collision reports a hit on a wall, the
\* velocity component normal to that wall reverses sign, scaled by WALL_BOUNCE,
\* and the angular velocity is multiplied by -0.8, for every velocity.
C7_NormalVelocityReversed ==
    (WallChecked /\ HitWall(pre.balls[1]) # "none") =>
        LET wall == HitWall(pre.balls[1])
            before == NormalVelocity(pre.balls[1], wall)
            after == NormalVelocity(gv.balls[1], wall)
        IN  /\ Sign(after) = -Sign(before)
            /\ ScaledByWallBounce(before, after)
            /\ InvertedAndDamped(pre.balls[1].angular_velocity,
                                 gv.balls[1].angular_velocity)

\* C7 as amended: whenever check_wall_collision reports a hit on a wall, the
\* velocity component normal to that wall is left pointing into the table (or
\* zero) with WALL_BOUNCE times its former magnitude, so that it reverses sign
\* exactly when the ball was moving toward the wall; the angular velocity is
\* multiplied by -0.8.
C7_NormalVelocityInward ==
    (WallChecked /\ HitWall(pre.balls[1]) # "none") =>
        LET wall == HitWall(pre.balls[1])
            before == NormalVelocity(pre.balls[1], wall)
            after == NormalVelocity(gv.balls[1], wall)
        IN  /\ after * Inward(wall) >= 0
            /\ (before * Inward(wall) < 0) => (Sign(after) = -Sign(before))
            /\ ScaledByWallBounce(before, after)
            /\ InvertedAndDamped(pre.balls[1].angular_velocity,
                                 gv.balls[1].angular_velocity)

\* C7 witness: a spinning ball across the left wall and moving toward it has
\* been checked and now moves away from it.
C7_Witness ==
    /\ WallChecked
    /\ HitWall(pre.balls[1]) = "left"
    /\ pre.balls[1].change_x < 0
    /\ pre.balls[1].angular_velocity # 0
    /\ gv.balls[1].change_x > 0

\* the scenario of C9: equal masses, touching along x, ball 1 moving head-on
\* toward ball 2 at speed 5, ball 2 at rest
HeadOn(balls) ==
    /\ balls[2].center_x - balls[1].center_x = 2 * BALL_RADIUS * U
    /\ balls[2].center_y = balls[1].center_y
    /\ balls[1].change_x = 5 * U /\ balls[1].change_y = 0
    /\ balls[2].change_x = 0 /\ balls[2].change_y = 0

\* C9: in the head-on scenario resolve_ball_collision leaves ball 2 with
\* velocity 5 * 0.9 = 4.5 along x and ball 1 with the remaining 0.5, the y
\* components unchanged.
C9_HeadOnTransfer ==
    (Resolved /\ HeadOn(pre.balls)) =>
        /\ gv.balls[2].change_x = 4500 /\ gv.balls[2].change_y = 0
        /\ gv.balls[1].change_x = 500 /\ gv.balls[1].change_y = 0

\* C9 witness: the head-on pair has been resolved and ball 2 moves.
C9_Witness == Resolved /\ HeadOn(pre.balls) /\ gv.balls[2].change_x > 0

\* position, velocity and angular velocity of a ball
Kinetic(b) == <<b.center_x, b.center_y, b.change_x, b.change_y, b.angular_velocity>>

\* C15: resolve_ball_collision on two balls whose centers coincide exactly
\* returns with both balls' positions, velocities and angular velocities as
\* they were.
C15_CoincidentPairSkipped ==
    (Resolved /\ Coincident(pre.balls[1], pre.balls[2])) =>
        /\ Kinetic(gv.balls[1]) = Kinetic(pre.balls[1])
        /\ Kinetic(gv.balls[2]) = Kinetic(pre.balls[2])

\* C15 witness: the call was made on a coincident pair that closes in along
\* the x axis and spins, and the two balls still coincide.
C15_Witness ==
    /\ Resolved
    /\ Coincident(pre.balls[1], pre.balls[2])
    /\ pre.balls[1].change_x > pre.balls[2].change_x
    /\ pre.balls[1].angular_velocity > SPIN_MIN
    /\ Coincident(gv.balls[1], gv.balls[2])

\* C19: check_wall_collision corrects one axis per call.  On a ball across a
\* vertical and a horizontal wall the call clamps center_x to the vertical
\* wall, reflects change_x (magnitude times WALL_BOUNCE, pointing inward),
\* returns True and leaves center_y and change_y as they were; on a ball
\* across no wall it returns False and changes nothing.
C19_OneAxisPerCall ==
    WallChecked =>
        LET b == pre.balls[1]
            a == gv.balls[1]
        IN  /\ (CrossesVertical(b) /\ CrossesHorizontal(b)) =>
                 /\ last.hit
                 /\ a.center_x = (IF Left(b) < LeftBound
                                  THEN LeftBound + BALL_RADIUS * U
                                  ELSE RightBound - BALL_RADIUS * U)
                 /\ a.change_x = (IF Left(b) < LeftBound
                                  THEN Bounce(b.change_x) ELSE -Bounce(b.change_x))
                 /\ a.center_y = b.center_y
                 /\ a.change_y = b.change_y
            /\ (~CrossesVertical(b) /\ ~CrossesHorizontal(b)) =>
                 /\ ~last.hit
                 /\ a = b

\* C19 witness: the call was made on a ball in a corner, moving into both
\* walls; it returned True, turned change_x around and left the ball across
\* the horizontal wall, still moving into it.
C19_Witness ==
    /\ WallChecked
    /\ CrossesVertical(pre.balls[1]) /\ CrossesHorizontal(pre.balls[1])
    /\ pre.balls[1].change_x < 0 /\ pre.balls[1].change_y < 0
    /\ last.hit
    /\ gv.balls[1].change_x > 0
    /\ ~CrossesVertical(gv.balls[1]) /\ CrossesHorizontal(gv.balls[1])
    /\ gv.balls[1].change_y < 0

\* speed_along_normal as resolve_ball_collision computes it for the pair
PairSpeedAlongNormal(balls) ==
    SpeedAlongNormal(balls[1], balls[2],
                     Normal(balls[2].center_x - balls[1].center_x,
                            balls[2].center_y - balls[1].center_y))

\* the pair overlaps (the call does not return early) and is separating:
\* its relative velocity along the center-to-center normal is >= 0
Separating(balls) ==
    /\ ~ResolveSkips(balls[2].center_x - balls[1].center_x,
                     balls[2].center_y - balls[1].center_y)
    /\ PairSpeedAlongNormal(balls) >= 0

\* C20: on two overlapping balls that are separating (relative velocity along
\* the normal >= 0) resolve_ball_collision applies the positional separation
\* and nothing else: both velocities are as before the call, and so are both
\* angular velocities.  The velocities are kept in every case; the angular
\* velocities are not when the relative velocity along the normal is 0.
C20_SeparatingNoImpulse ==
    (Resolved /\ Separating(pre.balls)) =>
        \A i \in {1, 2} :
            /\ gv.balls[i].change_x = pre.balls[i].change_x
            /\ gv.balls[i].change_y = pre.balls[i].change_y
            /\ gv.balls[i].angular_velocity = pre.balls[i].angular_velocity

\* the pair overlaps and is not moving apart: resolve_ball_collision reaches
\* its impulse and spin-transfer lines
ImpulseApplied(balls) ==
    /\ ~ResolveSkips(balls[2].center_x - balls[1].center_x,
                     balls[2].center_y - balls[1].center_y)
    /\ PairSpeedAlongNormal(balls) <= 0

\* what ball 1 has given away of its angular velocity in the last call
SpinGiven == pre.balls[1].angular_velocity - gv.balls[1].angular_velocity

\* C21: when resolve_ball_collision(a, b) applies an impulse and
\* |a.angular_velocity| > 0.1, 30% of a's angular velocity (to the rounding of
\* the fixed point) leaves a and is added to b, the sum of the two staying
\* the same; when |a.angular_velocity| <= 0.1 neither angular velocity
\* changes.
C21_SpinTransferred ==
    (Resolved /\ ImpulseApplied(pre.balls)) =>
        IF Abs(pre.balls[1].angular_velocity) > SPIN_MIN
        THEN /\ Abs(10 * SpinGiven - 3 * pre.balls[1].angular_velocity) <= 5
             /\ gv.balls[2].angular_velocity = pre.balls[2].angular_velocity + SpinGiven
             /\ gv.balls[1].angular_velocity + gv.balls[2].angular_velocity
                  = pre.balls[1].angular_velocity + pre.balls[2].angular_velocity
        ELSE /\ gv.balls[1].angular_velocity = pre.balls[1].angular_velocity
             /\ gv.balls[2].angular_velocity = pre.balls[2].angular_velocity

\* C21 witness: an impulse was applied to a pair whose first ball spun at 2.5
\* and whose second at 0.5: they end at 1.75 and 1.25.
C21_Witness ==
    /\ Resolved /\ ImpulseApplied(pre.balls)
    /\ pre.balls[1].angular_velocity = 2500 /\ pre.balls[2].angular_velocity = 500
    /\ gv.balls[1].angular_velocity = 1750 /\ gv.balls[2].angular_velocity = 1250
    /\ gv.balls[1].change_x # pre.balls[1].change_x

\* m1 * v1 + m2 * v2 of the pair, both components
Momentum(balls) ==
    <<MASS * balls[1].change_x + MASS * balls[2].change_x,
      MASS * balls[1].change_y + MASS * balls[2].change_y>>

\* C22: resolve_ball_collision leaves the total linear momentum of the pair,
\* m1 * v1 + m2 * v2, as it was, in both components, whatever the positions
\* and velocities of the two balls.
C22_MomentumConserved ==
    Resolved => Momentum(gv.balls) = Momentum(pre.balls)

\* C22 witness: an impulse was applied along an oblique normal and both
\* velocities changed in both components.
C22_Witness ==
    /\ Resolved /\ ImpulseApplied(pre.balls)
    /\ \A i \in {1, 2} :
          /\ gv.balls[i].change_x # pre.balls[i].change_x
          /\ gv.balls[i].change_y # pre.balls[i].change_y
    /\ Momentum(pre.balls)[1] # 0 /\ Momentum(pre.balls)[2] # 0

\* ------------------------------------------------------------------------
\* SpecWallShot: the scenario of a lone cue ball at (300, 350) with velocity
\* (10, 0), stepped by the physics passes of on_update frame after frame
\* ------------------------------------------------------------------------
InitWallShot ==
    /\ gv = [Setup("PRACTICE") EXCEPT
                !.balls = <<BallAt(0, <<CueX, CueY>>, <<10 * U, 0>>, 0)>>,
                !.game_state = "BALLS_MOVING"]
    /\ pre = gv
    /\ last = [op |-> "input", dt |-> 0]
    /\ ticks = 0
    /\ inputs = 0

\* one physics step: the update-and-wall loop and the pair loop of on_update;
\* ticks counts the steps up to MaxSteps
StepWallShot ==
    /\ \E dt \in DeltaTimes :
         /\ gv' = [gv EXCEPT !.balls = PairPass(UpdatePass(gv.balls, dt))]
         /\ last' = [op |-> "step", dt |-> dt]
    /\ pre' = gv
    /\ ticks' = Min(ticks + 1, MaxSteps)
    /\ UNCHANGED inputs

\* the frame loop keeps stepping: weak fairness of the step
SpecWallShot == InitWallShot /\ [][StepWallShot]_vars /\ WF_vars(StepWallShot)

\* the cue ball moves left, no faster than 10 * WALL_BOUNCE
Bounced ==
    /\ gv.balls[1].change_x < 0
    /\ 100 * Abs(gv.balls[1].change_x) <= 10 * U * WALL_BOUNCE

\* the cue ball has not bounced: it moves right or not at all, its right edge
\* left of the wall
ShortOfWall == gv.balls[1].change_x >= 0 /\ Right(gv.balls[1]) < RightBound

AtRest == gv.balls[1].change_x = 0 /\ gv.balls[1].change_y = 0

\* C8 as claimed: after some number of ticks velocity.x of the cue ball is
\* negative with magnitude <= 10 * WALL_BOUNCE: it reaches the right-hand wall
\* and bounces before friction brings it to rest.
C8_EventuallyBounces == <>Bounced

\* C8 as amended: the ball never reaches the right-hand wall: at every tick
\* velocity.x is >= 0 and the ball's right edge is left of 1135, and from
\* MaxSteps ticks on friction has brought the ball to rest (velocity (0, 0)).
C8_StopsBeforeWall ==
    /\ ShortOfWall
    /\ ticks >= MaxSteps => AtRest

\* C8 witness: the ball has been stepped to rest, short of the wall.
C8_Witness ==
    /\ last.op = "step"
    /\ AtRest
    /\ gv.balls[1].center_x > CueX
    /\ ShortOfWall

\* ------------------------------------------------------------------------
\* Properties of the game (Spec)
\* ------------------------------------------------------------------------
Ticked == last.op = "on_update"

\* position, velocity and angular velocity of every ball
Kinematics(balls) ==
    [i \in 1..Len(balls) |->
        <<balls[i].center_x, balls[i].center_y, balls[i].change_x,
          balls[i].change_y, balls[i].angular_velocity>>]

\* C1 as claimed: a tick with delta_time = 0 leaves every ball's position,
\* velocity and angular velocity unchanged.
C1_ZeroTickNoOp ==
    (Ticked /\ last.dt = 0) => Kinematics(gv.balls) = Kinematics(pre.balls)

\* C2 as claimed: at the end of every on_update the centers of every two balls
\* in play are at least 2*BALL_RADIUS - epsilon apart.
C2_NoOverlapAfterTick ==
    Ticked =>
        \A i, j \in 1..Len(gv.balls) :
            (i < j /\ ~gv.balls[i].in_pocket /\ ~gv.balls[j].in_pocket)
                => Apart(gv.balls[i], gv.balls[j], 2 * BALL_RADIUS * U - EPS)

\* a tick that began in BALLS_MOVING and did not end the game
TickedWhileMoving ==
    Ticked /\ pre.game_state = "BALLS_MOVING" /\ gv.view = "game"

\* C10 as claimed: a tick that begins in BALLS_MOVING ends in AIMING exactly
\* when it ends with every ball at rest; on_balls_stopped (which counts
\* shots_taken) runs at that tick and at no other step; and no other step, a
\* pause or unpause key press included, brings the game to AIMING while a
\* ball still moves, so that every shot is followed by its own notification.
C10_StoppedOncePerShot ==
    /\ TickedWhileMoving => (gv.game_state = "AIMING" <=> ~BallsMoving(gv.balls))
    /\ (gv.shots_taken # pre.shots_taken /\ gv.shots_taken # 0)
          => /\ TickedWhileMoving
             /\ gv.game_state = "AIMING"
             /\ gv.shots_taken = pre.shots_taken + 1
    /\ (TickedWhileMoving /\ gv.game_state = "AIMING")
          => gv.shots_taken = pre.shots_taken + 1
    /\ (gv.view = "game" /\ gv.game_state = "AIMING") => ~BallsMoving(gv.balls)

\* velocity and angular velocity of the cue ball
CueMotion(g) ==
    LET c == g.balls[CueIndex(g)]
    IN  <<c.change_x, c.change_y, c.angular_velocity>>

\* C11 as claimed: in every reachable state in which some ball moves, no
\* mouse press and no SPACE key press changes the cue ball's velocity or
\* angular velocity.
C11_AimIgnoredWhileMoving ==
    (gv.view = "game" /\ BallsMoving(gv.balls)) =>
        \A t \in Targets, spin \in Spins :
            /\ \A button \in Buttons :
                 CueMotion(OnMousePress(gv, t[1], t[2], button, spin)) = CueMotion(gv)
            /\ CueMotion(OnKeyPress(gv, "SPACE", t[1], t[2], spin)) = CueMotion(gv)

\* ------------------------------------------------------------------------
\* SpecShot: one shot from the break position, then frames with no further
\* input until the game leaves BALLS_MOVING
\* ------------------------------------------------------------------------
\* pointer positions of the shot: the corner pocket, the head of the rack,
\* the right-hand cushion
ShotTargets == {<<60, 60>>, <<1000, 350>>, <<1140, 420>>}

\* game modes of the shot: without and with a clock
ShotModes == {"PRACTICE", "TIMED"}

\* values of aiming_power at the shot, in 1/1000: power 3, 12.5 and 25
ShotAimingPowers == {0, 500, 1000}

\* seconds left on the clock of the TIMED mode at the shot, in milliseconds
ShotTimes == {TIME_LIMIT * 1000, 1000}

InitShot ==
    /\ \E mode \in ShotModes, t \in ShotTargets, a \in ShotAimingPowers,
          spin \in Spins, dt \in DeltaTimes :
          \E time \in (IF mode = "TIMED" THEN ShotTimes ELSE {TIME_LIMIT * 1000}) :
             /\ gv = TakeShot([Setup(mode) EXCEPT !.aiming_power = a,
                                                  !.time_remaining = time],
                              t[1], t[2], spin)
             /\ last = [op |-> "take_shot", dt |-> dt]
    /\ pre = gv
    /\ ticks = 0
    /\ inputs = 0

\* a frame of the shot: on_update with the frame time of this run; ticks
\* counts the frames up to MaxShotTicks
StepShot ==
    /\ gv.view = "game"
    /\ gv.game_state = "BALLS_MOVING"
    /\ gv' = OnUpdate(gv, last.dt)
    /\ last' = [op |-> "on_update", dt |-> last.dt]
    /\ pre' = gv
    /\ ticks' = Min(ticks + 1, MaxShotTicks)
    /\ UNCHANGED inputs

SpecShot == InitShot /\ [][StepShot]_vars

\* the shot is still running: the game view is shown in BALLS_MOVING
ShotRunning == gv.view = "game" /\ gv.game_state = "BALLS_MOVING"

\* every ball is at rest and the game is AIMING again
ShotSettled ==
    /\ gv.view = "game"
    /\ gv.game_state = "AIMING"
    /\ \A i \in 1..Len(gv.balls) : gv.balls[i].change_x = 0 /\ gv.balls[i].change_y = 0

\* the game ended before the balls came to rest: game_over() showed the
\* results screen
ShotCutShort == gv.view = "results" /\ gv.game_state = "GAME_OVER"

\* C12 as claimed: with no further input, every shot is over in fewer than
\* MaxShotTicks frames, and when it is over every ball has velocity (0, 0)
\* and game_state is AIMING, for every direction, power and spin offered.
C12_ShotComesToRest ==
    /\ ShotRunning => ticks < MaxShotTicks
    /\ ~ShotRunning => ShotSettled

\* C12 as amended: with no further input, every shot is over in fewer than
\* MaxShotTicks frames, and when it is over either every ball has velocity
\* (0, 0) and game_state is AIMING, or the game has ended first (game_over()
\* has shown the results screen, as when the clock of the TIMED mode runs out
\* while balls still move).
C12_ShotComesToRestOrGameEnds ==
    /\ ShotRunning => ticks < MaxShotTicks
    /\ ~ShotRunning => (ShotSettled \/ ShotCutShort)

\* C12 witness: a shot at full power has been stepped until every ball is at
\* rest and the game is AIMING again, on_balls_stopped having run.
C12_Witness ==
    /\ last.op = "on_update"
    /\ ShotSettled
    /\ gv.aiming_power = 1000
    /\ ticks > 100
    /\ gv.shots_taken = 1

\* ------------------------------------------------------------------------
\* SpecAim: aiming from the break position: draw frames, right clicks and
\* shots, with the pointer at positions drawn from AimPointers.  last.x and
\* last.y are the pointer of the last event, last.chosen (history) is the
\* aiming_power that the last right click set, -1 before the first one
\* ------------------------------------------------------------------------
\* pointer positions: the cue ball's center, 1, 50, 100 and 250 pixels from
\* it, the corner pocket, the head of the rack
AimPointers ==
    {<<300, 350>>, <<301, 350>>, <<300, 400>>, <<400, 350>>, <<300, 100>>,
     <<60, 60>>, <<1000, 350>>}

InitAim ==
    /\ \E mode \in GameModes : gv = Setup(mode)
    /\ pre = gv
    /\ last = [op |-> "setup", dt |-> 0, x |-> 0, y |-> 0, chosen |-> -1]
    /\ ticks = 0
    /\ inputs = 0

\* a frame is drawn with the pointer at p
AimDraw ==
    /\ inputs < MaxAimInputs
    /\ \E p \in AimPointers :
         /\ gv' = OnDraw(gv, p[1], p[2])
         /\ last' = [op |-> "on_draw", dt |-> 0, x |-> p[1], y |-> p[2],
                     chosen |-> last.chosen]
    /\ pre' = gv
    /\ inputs' = inputs + 1
    /\ UNCHANGED ticks

\* a right click at p
AimRightClick ==
    /\ inputs < MaxAimInputs
    /\ \E p \in AimPointers :
         /\ gv' = OnMousePress(gv, p[1], p[2], "RIGHT", 0)
         /\ last' = [op |-> "adjust_power", dt |-> 0, x |-> p[1], y |-> p[2],
                     chosen |-> IF gv.game_state = "AIMING" /\ ~gv.show_volume_indicator
                                THEN AdjustPower(gv, p[1], p[2]).aiming_power
                                ELSE last.chosen]
    /\ pre' = gv
    /\ inputs' = inputs + 1
    /\ UNCHANGED ticks

\* a left click at p
AimLeftClick ==
    /\ inputs < MaxAimInputs
    /\ \E p \in AimPointers, spin \in Spins :
         /\ gv' = OnMousePress(gv, p[1], p[2], "LEFT", spin)
         /\ last' = [op |-> "take_shot", dt |-> 0, x |-> p[1], y |-> p[2],
                     chosen |-> last.chosen]
    /\ pre' = gv
    /\ inputs' = inputs + 1
    /\ UNCHANGED ticks

\* SPACE with the pointer at p
AimSpace ==
    /\ inputs < MaxAimInputs
    /\ \E p \in AimPointers, spin \in Spins :
         /\ gv' = OnKeyPress(gv, "SPACE", p[1], p[2], spin)
         /\ last' = [op |-> "take_shot", dt |-> 0, x |-> p[1], y |-> p[2],
                     chosen |-> last.chosen]
    /\ pre' = gv
    /\ inputs' = inputs + 1
    /\ UNCHANGED ticks

NextAim == AimDraw \/ AimRightClick \/ AimLeftClick \/ AimSpace

SpecAim == InitAim /\ [][NextAim]_vars

\* take_shot was called in AIMING and did not reject the shot
ShotApplied ==
    /\ last.op = "take_shot"
    /\ pre.game_state = "AIMING"
    /\ gv.last_shot_time # pre.last_shot_time

\* C13: immediately after a take_shot that is not rejected, the speed of the
\* cue ball is between MIN_POWER and MAX_POWER (to within 0.01, the rounding
\* of the fixed-point arithmetic), whatever aiming_power the draw frames and
\* right clicks before it have left.
C13_ShotPowerClamped ==
    ShotApplied =>
        LET speed == Speed(gv.balls[CueIndex(gv)])
        IN  MIN_POWER * U - EPS <= speed /\ speed <= MAX_POWER * U + EPS

\* C13 witness: a shot has been applied at full aiming_power (set by a draw
\* frame or a right click) and the cue ball moves at MAX_POWER.
C13_Witness ==
    /\ ShotApplied
    /\ pre.aiming_power = 1000
    /\ Speed(gv.balls[CueIndex(gv)]) >= MAX_POWER * U - EPS

\* a shot was asked for in AIMING with the pointer on the cue ball's center
ZeroLengthShot ==
    /\ last.op = "take_shot"
    /\ pre.game_state = "AIMING"
    /\ CueIndex(pre) > 0
    /\ last.x * U = pre.balls[CueIndex(pre)].center_x
    /\ last.y * U = pre.balls[CueIndex(pre)].center_y

\* C14: a shot whose aim vector has length zero (target on the cue ball's
\* center) changes nothing: the cue ball's velocity and angular velocity,
\* game_state and last_shot_time are as before the call.
C14_ZeroLengthShotNoOp ==
    ZeroLengthShot =>
        /\ CueMotion(gv) = CueMotion(pre)
        /\ gv.game_state = pre.game_state
        /\ gv.last_shot_time = pre.last_shot_time

\* C14 witness: a zero-length shot was asked for after a draw frame or right
\* click had set a non-zero aiming_power, and the game still aims.
C14_Witness ==
    /\ ZeroLengthShot
    /\ pre.aiming_power > 0
    /\ gv.game_state = "AIMING"

\* ------------------------------------------------------------------------
\* SpecPocket: three balls (cue ball, eight ball, a solid) placed on and
\* around the pockets, under check_pocket_collisions and on_update
\* ------------------------------------------------------------------------
\* positions, in pixels: the center of the first pocket, POCKET_RADIUS - 1,
\* POCKET_RADIUS and POCKET_RADIUS + 1 to its right, the center of the middle
\* pocket of the bottom rail, the center of the last pocket, two positions on
\* the table
PocketPositions ==
    {<<60, 60>>, <<91, 60>>, <<92, 60>>, <<93, 60>>, <<600, 50>>, <<1140, 640>>,
     <<300, 350>>, <<600, 350>>}

CuePositions == {<<60, 60>>, <<92, 60>>, <<600, 50>>, <<300, 350>>}

\* velocity and angular velocity of the cue ball
CueSpins == {<<<<0, 0>>, 0>>, <<<<-4000, -3000>>, 2500>>}

\* a ball of the harness, at pixel position pos
PocketBall(number, ball_type, pos, vel, w) ==
    [Ball(pos[1] * U, pos[2] * U, ball_type, number)
        EXCEPT !.change_x = vel[1], !.change_y = vel[2], !.angular_velocity = w]

PocketInputs ==
    {<<PocketBall(0, "CUE", pc, m[1], m[2]),
       PocketBall(8, "EIGHT", p8, <<0, 0>>, 0),
       PocketBall(1, "SOLID", p1, <<0, 0>>, 0)>> :
        pc \in CuePositions, m \in CueSpins,
        p8 \in {<<1140, 640>>, <<600, 350>>, <<93, 60>>},
        p1 \in PocketPositions \ {<<300, 350>>}}

InitPocket ==
    /\ \E mode \in GameModes, bs \in PocketInputs :
         gv = [Setup(mode) EXCEPT !.balls = bs]
    /\ pre = gv
    /\ last = [op |-> "input", dt |-> 0]
    /\ ticks = 0
    /\ inputs = 0

\* check_pocket_collisions()
CallPocketCheck ==
    /\ ticks < MaxPocketCalls
    /\ gv.view = "game"
    /\ gv' = CheckPocketCollisions(gv)
    /\ last' = [op |-> "check_pocket_collisions", dt |-> 0]
    /\ pre' = gv
    /\ ticks' = ticks + 1
    /\ UNCHANGED inputs

\* on_update(delta_time)
PocketTick ==
    /\ ticks < MaxPocketCalls
    /\ gv.view = "game"
    /\ \E dt \in DeltaTimes :
         /\ gv' = OnUpdate(gv, dt)
         /\ last' = [op |-> "on_update", dt |-> dt]
    /\ pre' = gv
    /\ ticks' = ticks + 1
    /\ UNCHANGED inputs

NextPocket == CallPocketCheck \/ PocketTick

SpecPocket == InitPocket /\ [][NextPocket]_vars

PocketChecked == last.op = "check_pocket_collisions"

\* the pocket center of index k lies less than POCKET_RADIUS from the ball's
\* center
WithinPocket(b, k) ==
    DistLess(b.center_x - PocketLocations[k][1] * U,
             b.center_y - PocketLocations[k][2] * U, POCKET_RADIUS * U)

\* the pockets within POCKET_RADIUS of the ball
PocketsNear(b) == {k \in 1..Len(PocketLocations) : WithinPocket(b, k)}

\* the captures made by the last handler: <<ball number, pocket index>>
NewCaptures ==
    SubSeq(gv.pocket_emits, Len(pre.pocket_emits) + 1, Len(gv.pocket_emits))

\* the positions in NewCaptures that are captures of the ball of that number
CapturesOf(number) == {j \in 1..Len(NewCaptures) : NewCaptures[j][1] = number}

\* the distance between the ball's center and the pocket center of index k
\* is exactly d pixels
AtPocketDistance(b, k, d) ==
    LET dx == b.center_x - PocketLocations[k][1] * U
        dy == b.center_y - PocketLocations[k][2] * U
    IN  ~DistLess(dx, dy, d * U) /\ ~DistGreater(dx, dy, d * U)

\* C16: check_pocket_collisions captures a ball exactly when some pocket
\* center lies within POCKET_RADIUS of its center (nearer than POCKET_RADIUS:
\* at exactly POCKET_RADIUS the ball stays), the capture is by the first
\* such pocket in pocket_locations order, and no ball is captured twice in a
\* tick; a ball not captured is left as it was.
C16_CapturedByFirstPocketWithin ==
    /\ PocketChecked =>
         \A i \in 1..Len(pre.balls) :
            LET b == pre.balls[i]
                near == PocketsNear(b)
            IN  IF near = {}
                THEN /\ CapturesOf(b.number) = {}
                     /\ IndexOf(gv.balls, b.number) > 0
                     /\ gv.balls[IndexOf(gv.balls, b.number)] = b
                ELSE \E j \in 1..Len(NewCaptures) :
                        /\ CapturesOf(b.number) = {j}
                        /\ NewCaptures[j][2] \in near
                        /\ \A k \in near : NewCaptures[j][2] <= k
    /\ Ticked => \A i \in 1..Len(pre.balls) :
                    Cardinality(CapturesOf(pre.balls[i].number)) <= 1

\* C16 witness: the check has run on a cue ball at rest at distance 0 from
\* the first pocket and captured it there, while the eight ball at exactly
\* POCKET_RADIUS + 1 from that pocket and the solid at exactly POCKET_RADIUS
\* were not captured.
C16_Witness ==
    /\ PocketChecked
    /\ AtPocketDistance(pre.balls[1], 1, 0)
    /\ ~Moving(pre.balls[1])
    /\ NewCaptures = << <<0, 1>> >>
    /\ AtPocketDistance(pre.balls[2], 1, POCKET_RADIUS + 1)
    /\ AtPocketDistance(pre.balls[3], 1, POCKET_RADIUS)
    /\ Len(gv.balls) = 3

\* the last handler was a tick in which the cue ball was captured
CueCapturedInTick == Ticked /\ CapturesOf(0) # {}

\* C17: at the end of a tick in which the cue ball was captured, the cue ball
\* is in the ball set, at (300, SCREEN_HEIGHT // 2), with velocity exactly
\* (0, 0) and in_pocket False; and whatever ticks and pocket checks have run,
\* the cue ball is in the ball set.
C17_CueRespawned ==
    /\ CueIndex(gv) > 0
    /\ CueCapturedInTick =>
         LET c == gv.balls[CueIndex(gv)]
         IN  /\ c.center_x = 300 * U
             /\ c.center_y = (SCREEN_HEIGHT \div 2) * U
             /\ c.change_x = 0 /\ c.change_y = 0
             /\ ~c.in_pocket

\* C17 witness: a tick of 20 ms in TURN_BASED mode captured the cue ball
\* while it moved and spun, ended the turn, and left the three balls in the
\* set.
C17_Witness ==
    /\ CueCapturedInTick
    /\ last.dt > 0
    /\ Moving(pre.balls[CueIndex(pre)])
    /\ pre.game_mode = "TURN_BASED"
    /\ gv.current_turn = pre.current_turn + 1
    /\ ~Moving(gv.balls[CueIndex(gv)])
    /\ Len(gv.balls) = 3

\* the numbers of the non-cue balls captured since the game was set up
PottedNumbers ==
    {gv.pocket_emits[j][1] : j \in 1..Len(gv.pocket_emits)} \ {0}

\* C18: at the end of every tick (and of every pocket check) no ball of the
\* ball set has in_pocket True, and no non-cue ball captured since setup() is
\* in the ball set, so none is offered to a later wall, pair or pocket check.
C18_PottedBallsLeaveTheSet ==
    /\ (Ticked \/ PocketChecked) =>
          \A i \in 1..Len(gv.balls) : ~gv.balls[i].in_pocket
    /\ \A n \in PottedNumbers : IndexOf(gv.balls, n) = 0

\* C18 witness: a non-cue ball was captured by an earlier handler, a tick of
\* 20 ms has run since on the remaining balls, and the ball is still absent.
C18_Witness ==
    /\ Ticked
    /\ last.dt > 0
    /\ NewCaptures = <<>>
    /\ PottedNumbers # {}
    /\ Len(gv.balls) = 3 - Cardinality(PottedNumbers)
    /\ Len(pre.balls) = Len(gv.balls)

\* C23: in every state of a shot and the frames after it (wall hits and
\* collisions included) the multiplier FRICTION - 0.0005 * speed that
\* Ball.update would apply to each ball is strictly positive, so friction
\* never turns a velocity around.
C23_FrictionFactorPositive ==
    \A i \in 1..Len(gv.balls) : FrictionFactor(Speed(gv.balls[i])) > 0

\* C23 witness: a frame after a shot at full power: the cue ball has been
\* slowed down, a racked ball has been set moving by a collision, and the
\* cue ball still moves in the direction it was shot in.
C23_Witness ==
    /\ last.op = "on_update"
    /\ gv.aiming_power = 1000
    /\ ticks > 30
    /\ gv.view = "game"
    /\ \E i \in 1..Len(gv.balls) : gv.balls[i].number # 0 /\ Moving(gv.balls[i])
    /\ Speed(gv.balls[CueIndex(gv)]) > 0
    /\ Speed(gv.balls[CueIndex(gv)]) < Speed(pre.balls[CueIndex(pre)])

\* ------------------------------------------------------------------------
\* SpecPreview: draw frames in AIMING with the cue ball placed on the table
\* and the pointer around it: the trajectory preview of each frame
\* ------------------------------------------------------------------------
\* cue-ball positions, in pixels: the break position, the four extreme
\* positions the walls allow, positions at a wall, mid-table
PreviewCuePositions ==
    {<<300, 350>>, <<79, 79>>, <<1121, 621>>, <<79, 621>>, <<1121, 79>>,
     <<600, 79>>, <<79, 350>>, <<600, 350>>, <<1000, 600>>}

\* pointer positions relative to the cue ball, in pixels: on the cue ball,
\* along the axes, nearly along the axes, oblique, at small and full power
PreviewOffsets ==
    {<<0, 0>>, <<1, 0>>, <<-1, 0>>, <<0, 1>>, <<0, -1>>, <<100, 0>>, <<0, -250>>,
     <<-50, 0>>, <<0, 30>>, <<1000, 1>>, <<1, -500>>, <<3, 4>>, <<-3, -4>>,
     <<-1, 1>>, <<2, -2>>, <<-60, -80>>, <<150, 200>>, <<-200, 150>>, <<12, -5>>}

InitPreview ==
    /\ \E p \in PreviewCuePositions, guides \in BOOLEAN :
         gv = [Setup("PRACTICE") EXCEPT !.balls[1].center_x = p[1] * U,
                                        !.balls[1].center_y = p[2] * U,
                                        !.show_guides = guides]
    /\ pre = gv
    /\ last = [op |-> "setup", dt |-> 0]
    /\ ticks = 0
    /\ inputs = 0

\* on_draw() with the pointer at the cue ball's position plus an offset,
\* inside the window; last.segments is what draw_bank_shot_preview went
\* through
DrawPreview ==
    /\ inputs < MaxPreviews
    /\ \E o \in PreviewOffsets :
         LET mx == gv.balls[CueIndex(gv)].center_x \div U + o[1]
             my == gv.balls[CueIndex(gv)].center_y \div U + o[2]
         IN  /\ mx \in 0..SCREEN_WIDTH /\ my \in 0..SCREEN_HEIGHT
             /\ gv' = OnDraw(gv, mx, my)
             /\ last' = [op |-> "on_draw", dt |-> 0, x |-> mx, y |-> my,
                         segments |-> BankShotPreview(gv, mx, my)]
    /\ pre' = gv
    /\ inputs' = inputs + 1
    /\ UNCHANGED ticks

SpecPreview == InitPreview /\ [][DrawPreview]_vars

\* a frame has been drawn with the guides on
Previewed == last.op = "on_draw" /\ pre.show_guides

\* C24: in the trajectory preview of a drawn frame no segment ends in an
\* error: the power that divides is greater than zero, a direction component
\* that is exactly zero gives both walls of its axis an infinite intersection
\* time, and in each of the at most 3 segments some intersection time is
\* strictly positive.
C24_PreviewFindsWall ==
    Previewed =>
        /\ Len(last.segments) \in 1..3
        /\ \A k \in 1..Len(last.segments) :
              LET s == last.segments[k]
              IN  /\ s.end # "error"
                  /\ s.power > 0
                  /\ s.dx = 0 => (s.times[1] = INF /\ s.times[2] = INF)
                  /\ s.dy = 0 => (s.times[3] = INF /\ s.times[4] = INF)
                  /\ \E j \in 1..4 : s.times[j] > 0
                  /\ s.t_min > 0

\* C24 witness: a preview of three segments along the x axis (direction
\* component dy exactly zero), bouncing off two walls.
C24_Witness ==
    /\ Previewed
    /\ Len(last.segments) = 3
    /\ last.segments[1].dy = 0
    /\ last.segments[1].end = "bounce" /\ last.segments[2].end = "bounce"
    /\ last.segments[1].dx * last.segments[2].dx < 0

\* C25: immediately after setup() every pair of the 16 balls created (cue
\* ball, eight ball, 14 pyramid balls) has a center distance of at least
\* 2 * BALL_RADIUS.
C25_RackOverlapFree ==
    last.op = "setup" =>
        /\ Len(gv.balls) = 16
        /\ \A i, j \in 1..Len(gv.balls) :
              i < j => Apart(gv.balls[i], gv.balls[j], 2 * BALL_RADIUS * U)

\* C26: a game ends once: game_over has created at most one ResultsView
\* since setup(), and once it has created one, game_state is GAME_OVER.
C26_GameEndsOnce ==
    /\ Len(gv.results) <= 1
    /\ Len(gv.results) > 0 => gv.game_state = "GAME_OVER"

\* the ResultsViews created by the last handler
NewResults == SubSeq(gv.results, Len(pre.results) + 1, Len(gv.results))

\* C27: whenever a tick creates a ResultsView, the score handed to it is
\* GameView.score as it stands at the end of that tick, the points for the
\* ball whose pocketing ended the game included.
C27_ResultsScoreIsFinal ==
    Ticked => \A k \in 1..Len(NewResults) : NewResults[k].score = gv.score

\* C28: when a tick ends the game, the results screen shown reports a new
\* record exactly when the final score is greater than the high score that
\* held before the tick.
C28_NewRecordReported ==
    (Ticked /\ NewResults # <<>>) =>
        (NewRecordShown(gv.results[Len(gv.results)]) <=> gv.score > pre.high_score)

\* the last handler was a tick entered in PAUSED
TickedWhilePaused == Ticked /\ pre.game_state = "PAUSED"

\* C29: a tick entered while game_state is PAUSED changes nothing: every
\* ball's position, velocity and angular velocity, time_remaining, turn_time,
\* score, combo and game_state are as before, in every game mode.
C29_PausedTickNoOp ==
    TickedWhilePaused =>
        /\ Kinematics(gv.balls) = Kinematics(pre.balls)
        /\ gv.time_remaining = pre.time_remaining
        /\ gv.turn_time = pre.turn_time
        /\ gv.score = pre.score
        /\ gv.combo = pre.combo
        /\ gv.game_state = "PAUSED"

\* C29 witness: a tick of 20 ms was made in TIMED mode while the game was
\* paused with balls moving, and they have kept their velocities.
C29_Witness ==
    /\ TickedWhilePaused
    /\ last.dt > 0
    /\ gv.game_mode = "TIMED"
    /\ BallsMoving(pre.balls)
    /\ BallsMoving(gv.balls)

\* C30: the aiming_power that a right click sets is the one the next shot
\* uses: after an applied shot that follows a right click, whatever draw
\* frames came in between, the cue ball's speed is that aiming_power times
\* MAX_POWER, clamped to [MIN_POWER, MAX_POWER].
C30_RightClickPowerUsed ==
    (ShotApplied /\ last.chosen >= 0) =>
        Abs(Speed(gv.balls[CueIndex(gv)]) - ShotPower(last.chosen)) <= EPS

====
